---- MODULE Spec2Model ----
(***************************************************************************)
(* JokoUI: the reactive state container (createReactiveState), the         *)
(* component base class (JokoComponent), mount/unmount (joko-dom.js) and   *)
(* the demo component App, as one state machine.  JavaScript is single     *)
(* threaded: every external event (a call by the embedding page, a user    *)
(* click, the completion of a network request) runs its handler to the end *)
(* before the next event is taken, so every action below is one whole      *)
(* handler.  The calls a handler makes on the way (listener, render, DOM   *)
(* operations, hooks) are recorded, in order, in the variable log.         *)
(***************************************************************************)
EXTENDS Integers, Sequences, FiniteSets, TLC

\* ------------------------------------------------------------------ bounds
MaxCount == 2
MaxNeg == 1
MaxPending == 1
MaxObj == 1
MaxClicks == 3
MaxPush == 1
MaxFetch == 2

\* ------------------------------------------------------- JavaScript values
\* A value is a record [k, n]: its kind and, by kind, a number, a string
\* index or an object identity.
Undefined == [k |-> "undef", n |-> 0]
Null == [k |-> "null", n |-> 0]
NaN == [k |-> "nan", n |-> 0]
Num(i) == [k |-> "num", n |-> i]
Bool(b) == [k |-> "bool", n |-> IF b THEN 1 ELSE 0]
Str(i) == [k |-> "str", n |-> i]
Obj(i) == [k |-> "obj", n |-> i]
Arr(i) == [k |-> "arr", n |-> i]

\* The strings of the model, by index.
NameLeanne == Str(1)
NameCompany == Str(2)
NameOther == Str(3)
MsgHttpError == Str(4)
MsgTimeout == Str(5)
MsgNotAFunction == Str(6)

\* v1 !== v2
StrictNotEqual(v1, v2) ==
    IF v1.k = "nan" \/ v2.k = "nan" THEN TRUE ELSE v1 # v2

\* if (v) ...
Truthy(v) ==
    CASE v.k \in {"undef", "null", "nan"} -> FALSE
      [] v.k \in {"num", "bool", "str"} -> v.n # 0
      [] OTHER -> TRUE

\* v + d for the kinds the counter can hold (d is 1 or -1)
JsAdd(v, d) ==
    CASE v.k \in {"num", "bool"} -> Num(v.n + d)
      [] v.k = "null" -> Num(d)
      [] OTHER -> NaN

\* The text a template literal interpolates for v: `${v}`
Txt(t, i) == [t |-> t, i |-> i]
NoText == Txt("", 0)
Interpolate(v) ==
    CASE v.k = "num" -> Txt("numeral", v.n)
      [] v.k = "str" -> Txt("chars", v.n)
      [] v.k = "bool" -> Txt(IF v.n = 1 THEN "true" ELSE "false", 0)
      [] v.k = "obj" -> Txt("[object Object]", 0)
      [] OTHER -> Txt(IF v.k = "nan" THEN "NaN" ELSE IF v.k = "null" THEN "null" ELSE "undefined", 0)

\* ---------------------------------------------------------------- objects
Fields == {"count", "user", "loading", "error", "name", "company", "items", "length"}
EmptyObject == [p \in Fields |-> Undefined]
ObjIds == 1..(2 * MaxObj + 1)
Free == [p \in Fields |-> [k |-> "free", n |-> 0]]

\* ------------------------------------------------------ createReactiveState
\* new Proxy({ ...initialState }, handler): the proxy owns a fresh copy of
\* the fields of initialState; nothing else refers to that copy.  The
\* handler closes over onChangeCallback.
createReactiveState(initialState, onChangeCallback) ==
    [target |-> [p \in Fields |-> initialState[p]], onChange |-> onChangeCallback]

\* The closure the component passes as listener, and a missing argument.
ComponentListener == "() => { if (this._mounted) this._update() }"
NoListener == "undefined"
NoProxy == [target |-> Free, onChange |-> NoListener]

\* handler.get with the recursive call written createReactiveState(value):
\* the nested proxy gets no listener.
handler_get_nolistener(hp, proxy, property) ==
    LET value == proxy.target[property]
    IN IF Truthy(value) /\ value.k = "obj"
       THEN [value |-> value, wrapped |-> TRUE,
             view |-> createReactiveState(hp[value.n], NoListener)]
       ELSE [value |-> value, wrapped |-> FALSE, view |-> NoProxy]

\* handler.get without the !Array.isArray(value) test
handler_get_wrapArrays(hp, proxy, property) ==
    LET value == proxy.target[property]
    IN IF Truthy(value) /\ value.k \in {"obj", "arr"}
       THEN [value |-> value, wrapped |-> TRUE,
             view |-> createReactiveState(hp[value.n], proxy.onChange)]
       ELSE [value |-> value, wrapped |-> FALSE, view |-> NoProxy]

\* handler.get: the stored value, and for a non-array object a new proxy
\* made from it, with the same listener
handler_get(hp, proxy, property) ==
    LET value == proxy.target[property]
    IN IF Truthy(value) /\ value.k = "obj"
       THEN [value |-> value, wrapped |-> TRUE,
             view |-> createReactiveState(hp[value.n], proxy.onChange)]
       ELSE [value |-> value, wrapped |-> FALSE, view |-> NoProxy]

\* view.p1.p2...: the proxy reached from proxy along path (each step a get)
RECURSIVE ViewAt(_, _, _)
ViewAt(hp, proxy, path) ==
    IF path = <<>> THEN proxy
    ELSE ViewAt(hp, handler_get(hp, proxy, Head(path)).view, Tail(path))

\* whether every step of path yields a wrapped object
RECURSIVE PathOk(_, _, _)
PathOk(hp, proxy, path) ==
    IF path = <<>> THEN TRUE
    ELSE LET r == handler_get(hp, proxy, Head(path))
         IN r.wrapped /\ PathOk(hp, r.view, Tail(path))

\* ------------------------------------------------------------------- DOM
HostIds == {"app"}
MissingHost == "nowhere"
NodeIds == 1..(Cardinality(HostIds) + 2)
NoNode == 0
Markers == {"decrement", "reset", "increment", "fetchUser", "clearUser"}

\* An element: what the markup shows, and the marked elements under it.
Whitespace ==
    [tag |-> "#text", countText |-> NoText, countClass |-> "", loading |-> FALSE,
     clickables |-> <<>>, inputs |-> <<>>, forms |-> <<>>, error |-> NoText,
     userCard |-> FALSE, avatar |-> NoText, userName |-> NoText,
     company |-> NoText, items |-> NoText]
Placeholder == [Whitespace EXCEPT !.tag = "placeholder"]
NoElement == [Whitespace EXCEPT !.tag = "none"]
\* the text node a DOM method makes of the argument null
NullText == [Whitespace EXCEPT !.tag = "text:null"]
InSeq(x, s) == \E i \in 1..Len(s) : s[i] = x

\* A node: its content and, per marked element under it, the handlers its
\* onclick / oninput / onsubmit slot holds (none when just parsed).
NoHandlers(els) == [m \in {els[i] : i \in 1..Len(els)} |-> <<>>]
NewNode(content) ==
    [content |-> content, onclick |-> NoHandlers(content.clickables),
     oninput |-> NoHandlers(content.inputs), onsubmit |-> NoHandlers(content.forms)]
FreeNode == NewNode(NoElement)
Attached(w, n) == n # NoNode /\ \E h \in HostIds : InSeq(n, w.hosts[h])
InUse(w, n) == n = w.element \/ Attached(w, n)

\* What the JavaScript engine keeps: a node nothing refers to is gone.
Release(w) ==
    [w EXCEPT !.nodes = [n \in NodeIds |-> IF InUse(w, n) THEN @[n] ELSE FreeNode]]

\* document.createElement / template parsing: a node not yet in the tree
FreshNode(w) == CHOOSE n \in NodeIds : ~InUse(w, n) /\ \A m \in NodeIds : m < n => InUse(w, m)

\* html.trim(): leading and trailing whitespace removed
RECURSIVE TrimStart(_)
TrimStart(html) ==
    IF html # <<>> /\ Head(html).tag = "#text" THEN TrimStart(Tail(html)) ELSE html
RECURSIVE TrimEnd(_)
TrimEnd(html) ==
    IF html # <<>> /\ html[Len(html)].tag = "#text"
    THEN TrimEnd(SubSeq(html, 1, Len(html) - 1)) ELSE html
Trim(html) == TrimEnd(TrimStart(html))

\* template.innerHTML = html.trim(); template.content.firstChild
FirstChild(html) == IF Trim(html) = <<>> THEN NoElement ELSE Head(Trim(html))

\* The element of a set of one.  Only({ e : x \in {v} }) is e for x = v,
\* with v worked out once however often e mentions x.
Only(S) == CHOOSE x \in S : TRUE

\* template.content.firstChild as a node: a new node, or null when the
\* markup has no root
Parsed(w, html) == IF FirstChild(html) = NoElement THEN NoNode ELSE FreshNode(w)
Parse(w, html) ==
    IF FirstChild(html) = NoElement THEN w
    ELSE [w EXCEPT !.nodes[FreshNode(w)] = NewNode(FirstChild(html))]

\* ------------------------------------------------------------------- log
\* One entry per call made inside a handler, in order.  Every entry says
\* whether the live node is in the tree at that moment, and holds the live
\* node with its handlers and the children of the hosts.  The entries of the
\* set trap and of the listener carry the field, the old and the new value
\* and the state passed; the entries of the hooks carry what the hook can
\* see: the root state, the number of children of the live node's host and
\* what the live node shows.
Siblings(w, n) ==
    IF Attached(w, n) THEN Len(w.hosts[CHOOSE h \in HostIds : InSeq(n, w.hosts[h])]) ELSE 0
Dom(w) ==
    [element |-> w.element, hosts |-> w.hosts,
     node |-> IF w.element = NoNode THEN FreeNode ELSE w.nodes[w.element]]
Event(w, ev, name, old, new, st, kids, shown) ==
    [w EXCEPT !.log = Append(@,
        [ev |-> ev, name |-> name, old |-> old, new |-> new, st |-> st,
         att |-> Attached(w, w.element), kids |-> kids, shown |-> shown,
         dom |-> Dom(w)])]
Emit(w, ev, name, old, new, st) == Event(w, ev, name, old, new, st, 0, NoElement)
Note(w, ev, name) == Emit(w, ev, name, Undefined, Undefined, Free)
\* throw: the error leaves the function that was running
Throw(w, error) ==
    [Emit(w, "throw", error, Undefined, Undefined, w.state.target) EXCEPT !.err = error]
\* the call of a lifecycle hook
Hook(w, ev) ==
    Event(w, ev, "", Undefined, Undefined, w.state.target, Siblings(w, w.element),
          IF w.element = NoNode THEN NoElement ELSE w.nodes[w.element].content)

\* ------------------------------------------------------------ App.render
\* count < 0 ? 'negative' : count > 0 ? 'positive' : ''
CountClass(count) ==
    IF count.k \in {"num", "bool"} /\ count.n < 0 THEN "negative"
    ELSE IF count.k \in {"num", "bool"} /\ count.n > 0 THEN "positive"
    ELSE ""

\* user.name.charAt(0).toUpperCase()
Initial(name) == Txt("initial", name.n)

\* The markup App.render returns for the state it reads through this.state
\* (every read goes through handler.get).  email, phone and website are
\* shown like the company name and are left out.
render(hp, state) ==
    LET count == handler_get(hp, state, "count").value
        user == handler_get(hp, state, "user")
        loading == handler_get(hp, state, "loading").value
        error == handler_get(hp, state, "error").value
        userName == IF user.wrapped THEN handler_get(hp, user.view, "name").value
                    ELSE Undefined
        company == IF user.wrapped THEN handler_get(hp, user.view, "company")
                   ELSE [value |-> Undefined, wrapped |-> FALSE, view |-> NoProxy]
        companyName == IF company.wrapped
                       THEN handler_get(hp, company.view, "name").value
                       ELSE Undefined
        root ==
            [tag |-> "div.joko-app",
             countText |-> Interpolate(count),
             countClass |-> CountClass(count),
             loading |-> Truthy(loading),
             clickables |-> <<"decrement", "reset", "increment", "fetchUser">>
                            \o (IF Truthy(user.value) THEN <<"clearUser">> ELSE <<>>),
             inputs |-> <<>>,
             forms |-> <<>>,
             error |-> IF Truthy(error) THEN Interpolate(error) ELSE NoText,
             userCard |-> Truthy(user.value),
             avatar |-> IF ~Truthy(user.value) THEN NoText
                        ELSE IF Truthy(userName) THEN Initial(userName)
                        ELSE Txt("?", 0),
             userName |-> IF ~Truthy(user.value) THEN NoText
                          ELSE IF Truthy(userName) THEN Interpolate(userName)
                          ELSE Txt("Unknown", 0),
             company |-> IF ~Truthy(user.value) THEN NoText
                         ELSE IF Truthy(companyName) THEN Interpolate(companyName)
                         ELSE Txt("N/A", 0),
             items |-> NoText]
    IN <<Whitespace, root, Whitespace>>

\* Whether App.render raises instead of returning: user.name.charAt(0) is
\* evaluated when user and user.name are truthy, and is a TypeError
\* ("user.name.charAt is not a function") unless user.name is a string.
render_raises(hp, state) ==
    LET user == handler_get(hp, state, "user")
        userName == IF user.wrapped THEN handler_get(hp, user.view, "name").value
                    ELSE Undefined
    IN IF user.wrapped /\ Truthy(userName) /\ userName.k # "str" THEN "TypeError"
       ELSE "none"

\* A component of client code, class Panel extends App, that overrides
\* render(): nothing while count is falsy, and otherwise a root that shows
\* count and items.length and has two markers naming no method:
\*   const { count, items } = this.state
\*   return count ? `<div class="panel">${count} ${items ? items.length : 0}
\*       <button data-joko-click="missing">  <button data-joko-click="state">
\*       <button data-joko-click="increment"> <button data-joko-click="reset">
\*     </div>` : `  `
render_Panel(hp, state) ==
    LET count == handler_get(hp, state, "count").value
        items == handler_get(hp, state, "items").value
        root ==
            [Whitespace EXCEPT
                !.tag = "div.panel",
                !.countText = Interpolate(count),
                !.clickables = <<"missing", "state", "increment", "reset">>,
                !.items = IF Truthy(items) /\ items.k = "arr"
                          THEN Interpolate(hp[items.n]["length"])
                          ELSE Interpolate(Num(0))]
    IN IF Truthy(count) THEN <<Whitespace, root, Whitespace>> ELSE <<Whitespace, Whitespace>>

\* this.render(): the method of the component's class
this_render(w) ==
    IF w.component = "Panel" THEN render_Panel(w.heap, w.state) ELSE render(w.heap, w.state)

\* The error this.render() raises, if any.  JokoComponent.render, which a
\* class has to override, always raises: throw new Error('Component must
\* implement render() method').
this_render_raises(w) ==
    CASE w.component = "JokoComponent" -> "Error"
      [] w.component = "Panel" -> "none"
      [] OTHER -> render_raises(w.heap, w.state)

\* An error is on its way up the call stack.
Raised(w) == w.err # "none"

\* typeof this[methodName] === 'function'
IsMethod(methodName) ==
    methodName \in Markers \cup {"render", "onMount", "onUnmount", "onUpdate",
                                 "setState", "_update", "_bindEvents"}

\* ------------------------------------------------------- lifecycle hooks
\* App.onMount only configures the HTTP client; the other two are the
\* base class's empty hooks.
onMount(w) == Hook(w, "onMount")
onUnmount(w) == Hook(w, "onUnmount")
onUpdate(w) == Hook(w, "onUpdate")

\* ---------------------------------------------------------- _bindEvents
\* el.onclick = (e) => this[methodName](e), for every marked element of one
\* event family: an assignment, so the slot holds this one handler.
\* binding without the typeof this[methodName] === 'function' test
RECURSIVE BindFamily_strict(_, _, _)
BindFamily_strict(node, family, els) ==
    IF els = <<>> THEN node
    ELSE BindFamily_strict([node EXCEPT ![family][Head(els)] = <<Head(els)>>],
                           family, Tail(els))

RECURSIVE BindFamily(_, _, _)
BindFamily(node, family, els) ==
    IF els = <<>> THEN node
    ELSE LET methodName == Head(els)
             bound == IF IsMethod(methodName)
                      THEN [node EXCEPT ![family][methodName] = <<methodName>>]
                      ELSE node
         IN BindFamily(bound, family, Tail(els))

_bindEvents(w) ==
    IF w.element = NoNode THEN w
    ELSE LET el == w.nodes[w.element]
             n1 == BindFamily(el, "onclick", el.content.clickables)
             n2 == BindFamily(n1, "oninput", el.content.inputs)
             n3 == BindFamily(n2, "onsubmit", el.content.forms)
         IN Note([w EXCEPT !.nodes[w.element] = n3], "bind", "")

\* -------------------------------------------------------------- _update
\* old.after(newElement) in place of replaceWith: the old node stays
replaceWith_keepOld(w, old, new) ==
    Note([w EXCEPT !.hosts = [h \in HostIds |->
              IF InSeq(old, @[h]) /\ new # NoNode THEN Append(@[h], new) ELSE @[h]]],
         "replace", "")

\* this._element.replaceWith(newElement): newElement takes the place of the
\* old node under its parent; without a parent nothing happens.  The
\* argument null is converted to the string "null", and a string to a text
\* node.
replaceWith(w, old, new) ==
    LET node == IF new = NoNode THEN FreshNode(w) ELSE new
        w1 == IF new = NoNode THEN [w EXCEPT !.nodes[node] = NewNode(NullText)] ELSE w
    IN Note([w1 EXCEPT !.hosts = [h \in HostIds |->
                 [i \in 1..Len(@[h]) |-> IF @[h][i] = old THEN node ELSE @[h][i]]]],
            "replace", "")

\* _update without the call of _bindEvents
_update_norebind(w) ==
    IF w.element # NoNode
    THEN LET w1 == Note(w, "render", "")
             newHtml == this_render(w1)
             newElement == Parsed(w1, newHtml)
             w2 == Parse(w1, newHtml)
             w3 == replaceWith(w2, w2.element, newElement)
             w4 == Release([w3 EXCEPT !.element = newElement])
         IN onUpdate(w4)
    ELSE w

\* _update with onUpdate called before the node is replaced
_update_hookFirst(w) ==
    IF w.element # NoNode
    THEN LET w1 == Note(w, "render", "")
             newHtml == this_render(w1)
             newElement == Parsed(w1, newHtml)
             w2 == onUpdate(Parse(w1, newHtml))
             w3 == replaceWith(w2, w2.element, newElement)
             w4 == Release([w3 EXCEPT !.element = newElement])
         IN _bindEvents(w4)
    ELSE w

\* _update without this._element = newElement
_update_staleElement(w) ==
    IF w.element # NoNode
    THEN LET w1 == Note(w, "render", "")
             newHtml == this_render(w1)
             newElement == Parsed(w1, newHtml)
             w2 == Parse(w1, newHtml)
             w3 == replaceWith(w2, w2.element, newElement)
             w4 == _bindEvents(w3)
         IN onUpdate(w4)
    ELSE w

\* _update with render() inside try { } catch { return }
_update_swallow(w) ==
    IF w.element # NoNode
    THEN LET w1 == Note(w, "render", "")
             newHtml == this_render(w1)
             newElement == Parsed(w1, newHtml)
             w2 == Parse(w1, newHtml)
             w3 == replaceWith(w2, w2.element, newElement)
             w4 == Release([w3 EXCEPT !.element = newElement])
             w5 == _bindEvents(w4)
         IN IF this_render_raises(w) # "none" THEN w1 ELSE onUpdate(w5)
    ELSE w

_update(w) ==
    IF w.element # NoNode
    THEN LET w1 == Note(w, "render", "")
         IN IF this_render_raises(w) # "none"
            THEN Throw(w1, this_render_raises(w))
            ELSE
            Only({ LET newElement == Parsed(w1, newHtml)
                       w2 == Parse(w1, newHtml)
                       w3 == replaceWith(w2, w2.element, newElement)
                       w4 == Release([w3 EXCEPT !.element = newElement])
                       w5 == _bindEvents(w4)
                   IN onUpdate(w5) : newHtml \in {this_render(w1)} })
    ELSE w

\* A listener that renders once per handler, however many writes it makes
onChangeCallback_batched(w) ==
    IF w.mounted /\ \A i \in 1..Len(w.log) : w.log[i].ev # "render" THEN _update(w) ELSE w

\* The listener both the constructor and setState install.
onChangeCallback(w) == IF w.mounted THEN _update(w) ELSE w

\* ---------------------------------------------------------- handler.set
\* handler.set without the oldValue !== value test
set_always(w, path, property, value) ==
    LET view == ViewAt(w.heap, w.state, path)
        oldValue == view.target[property]
        w0 == Emit(w, "set", property, oldValue, value, view.target)
        target1 == [view.target EXCEPT ![property] = value]
        w1 == IF path = <<>> THEN [w0 EXCEPT !.state.target = target1] ELSE w0
    IN IF view.onChange # NoListener
       THEN onChangeCallback(Emit(w1, "notify", property, oldValue, value, target1))
       ELSE w1

\* handler.set of a proxy made over initialState itself, new
\* Proxy(initialState, handler): the write lands in the object passed in
set_shared(w, path, property, value) ==
    LET view == ViewAt(w.heap, w.state, path)
        oldValue == view.target[property]
        w0 == Emit(w, "set", property, oldValue, value, view.target)
    IN IF StrictNotEqual(oldValue, value)
       THEN LET target1 == [view.target EXCEPT ![property] = value]
                w1 == IF path = <<>>
                      THEN [w0 EXCEPT !.state.target = target1, !._state = target1]
                      ELSE IF Len(path) = 1
                      THEN [w0 EXCEPT !.heap[w0.state.target[path[1]].n] = target1]
                      ELSE w0
            IN IF view.onChange # NoListener
               THEN onChangeCallback(Emit(w1, "notify", property, oldValue, value, target1))
               ELSE w1
       ELSE w0

\* handler.set that calls the listener first and stores the value after
set_notifyFirst(w, path, property, value) ==
    LET view == ViewAt(w.heap, w.state, path)
        oldValue == view.target[property]
        w0 == Emit(w, "set", property, oldValue, value, view.target)
    IN IF StrictNotEqual(oldValue, value)
       THEN LET target1 == [view.target EXCEPT ![property] = value]
                w1 == IF view.onChange # NoListener
                      THEN onChangeCallback(
                               Emit(w0, "notify", property, oldValue, value, view.target))
                      ELSE w0
            IN IF path = <<>> THEN [w1 EXCEPT !.state.target = target1] ELSE w1
       ELSE w0

\* view.p1...pn.property = value, on the root view this.state
set(w, path, property, value) ==
    LET view == ViewAt(w.heap, w.state, path)
        oldValue == view.target[property]
        w0 == Emit(w, "set", property, oldValue, value, view.target)
    IN IF StrictNotEqual(oldValue, value)
       THEN LET target1 == [view.target EXCEPT ![property] = value]
                w1 == IF path = <<>> THEN [w0 EXCEPT !.state.target = target1] ELSE w0
            IN IF view.onChange # NoListener
               THEN onChangeCallback(Emit(w1, "notify", property, oldValue, value, target1))
               ELSE w1
       ELSE w0

\* ------------------------------------------------------------- setState
\* setState that re-renders a mounted component
setState_update(w, initialState) ==
    LET w1 == [w EXCEPT !._state = [p \in Fields |-> initialState[p]]]
        w2 == [w1 EXCEPT !.state = createReactiveState(w1._state, ComponentListener)]
    IN IF w2.mounted THEN _update(w2) ELSE w2

setState(w, initialState) ==
    LET w1 == [w EXCEPT !._state = [p \in Fields |-> initialState[p]]]
    IN [w1 EXCEPT !.state = createReactiveState(w1._state, ComponentListener)]

\* ---------------------------------------------------------------- mount
\* A component of client code that writes its state when it is mounted:
\*   class Starter extends App { onMount() { super.onMount(); this.state.count = 1 } }
onMount_Starter(w) == set(onMount(w), <<>>, "count", Num(1))

\* component.onMount(): the method of the component's class
this_onMount(w) == IF w.component = "Starter" THEN onMount_Starter(w) ELSE onMount(w)

\* mount that sets component._mounted after the hook has run
mount_flagAfterHook(w, targetId) ==
    IF targetId \notin HostIds
    THEN [w EXCEPT !.err = "TargetNotFound"]
    ELSE LET w1 == Note(w, "render", "")
             html == this_render(w1)
             element == Parsed(w1, html)
             w2 == Parse(w1, html)
             w3 == Note([w2 EXCEPT !.hosts[targetId] = <<>>], "clear", "")
             w4 == Note([w3 EXCEPT !.hosts[targetId] = Append(@, element)], "insert", "")
             w5 == Release([w4 EXCEPT !.element = element])
             w6 == _bindEvents(w5)
             w7 == this_onMount(w6)
             w8 == [w7 EXCEPT !.mounted = TRUE]
         IN IF element = NoNode THEN Release([w3 EXCEPT !.err = "TypeError"])
            ELSE [w8 EXCEPT !.ret = "component"]

\* mount with the target looked up only when it is needed, after render()
mount_lateCheck(w, targetId) ==
    LET w1 == Note(w, "render", "")
    IN IF targetId \notin HostIds
       THEN [w1 EXCEPT !.err = "TargetNotFound"]
       ELSE LET html == this_render(w1)
                element == Parsed(w1, html)
                w2 == Parse(w1, html)
                w3 == Note([w2 EXCEPT !.hosts[targetId] = <<>>], "clear", "")
                w4 == Note([w3 EXCEPT !.hosts[targetId] = Append(@, element)], "insert", "")
                w5 == Release([w4 EXCEPT !.element = element])
                w6 == [w5 EXCEPT !.mounted = TRUE]
                w7 == _bindEvents(w6)
                w8 == this_onMount(w7)
            IN IF element = NoNode THEN Release([w3 EXCEPT !.err = "TypeError"])
               ELSE [w8 EXCEPT !.ret = "component"]

\* mount without target.innerHTML = ''
mount_noClear(w, targetId) ==
    IF targetId \notin HostIds
    THEN [w EXCEPT !.err = "TargetNotFound"]
    ELSE LET w1 == Note(w, "render", "")
             html == this_render(w1)
             element == Parsed(w1, html)
             w2 == Parse(w1, html)
             w3 == Note(w2, "clear", "")
             w4 == Note([w3 EXCEPT !.hosts[targetId] = Append(@, element)], "insert", "")
             w5 == Release([w4 EXCEPT !.element = element])
             w6 == [w5 EXCEPT !.mounted = TRUE]
             w7 == _bindEvents(w6)
             w8 == this_onMount(w7)
         IN IF element = NoNode THEN Release([w3 EXCEPT !.err = "TypeError"])
            ELSE [w8 EXCEPT !.ret = "component"]

\* component.render() may raise, before anything was done to the host;
\* target.appendChild(null) raises a TypeError, after the host was cleared
mount(w, targetId) ==
    IF targetId \notin HostIds
    THEN [w EXCEPT !.err = "TargetNotFound"]
    ELSE LET w1 == Note(w, "render", "")
         IN IF this_render_raises(w) # "none"
            THEN Throw(w1, this_render_raises(w))
            ELSE
            Only({ LET element == Parsed(w1, html)
                       w2 == Parse(w1, html)
                       w3 == Note([w2 EXCEPT !.hosts[targetId] = <<>>], "clear", "")
                       w4 == Note([w3 EXCEPT !.hosts[targetId] = Append(@, element)],
                                  "insert", "")
                       w5 == Release([w4 EXCEPT !.element = element])
                       w6 == [w5 EXCEPT !.mounted = TRUE]
                       w7 == _bindEvents(w6)
                       w8 == this_onMount(w7)
                   IN IF element = NoNode THEN Release([w3 EXCEPT !.err = "TypeError"])
                      ELSE [w8 EXCEPT !.ret = "component"] : html \in {this_render(w1)} })

\* -------------------------------------------------------------- unmount
\* node.remove()
remove(w, node) ==
    Note([w EXCEPT !.hosts = [h \in HostIds |-> SelectSeq(@[h], LAMBDA n : n # node)]],
         "remove", "")

\* unmount that removes the node and forgets to clear the references
unmount_keepFlags(w) ==
    IF w.mounted /\ w.element # NoNode
    THEN LET w1 == onUnmount(w)
         IN remove(w1, w1.element)
    ELSE w

\* unmount that calls the hook after the removal
unmount_removeFirst(w) ==
    IF w.mounted /\ w.element # NoNode
    THEN LET w1 == remove(w, w.element)
             w2 == onUnmount(w1)
             w3 == Release([w2 EXCEPT !.element = NoNode])
         IN [w3 EXCEPT !.mounted = FALSE]
    ELSE w

unmount(w) ==
    IF w.mounted /\ w.element # NoNode
    THEN LET w1 == onUnmount(w)
             w2 == remove(w1, w1.element)
             w3 == Release([w2 EXCEPT !.element = NoNode])
         IN [w3 EXCEPT !.mounted = FALSE]
    ELSE w

\* ---------------------------------------------------------- App methods
\* The statement this.state.p1...pn.property = value inside a method body:
\* it is not reached when an earlier statement of the body raised.
assign(w, path, property, value) ==
    IF Raised(w) THEN w ELSE set(w, path, property, value)

increment(w) ==
    set(w, <<>>, "count", JsAdd(handler_get(w.heap, w.state, "count").value, 1))

decrement(w) ==
    set(w, <<>>, "count", JsAdd(handler_get(w.heap, w.state, "count").value, -1))

\* reset that leaves the count alone
reset_keep(w) == w

reset(w) == set(w, <<>>, "count", Num(0))

\* prabogoClient.get('/users/1'): one more request in flight
get(w) == IF Raised(w) THEN w ELSE [w EXCEPT !.pending = @ + 1]

\* fetchUser up to its await.  An error raised here, or later in the catch
\* block, rejects the promise fetchUser returned, which nobody handles.
fetchUser(w) ==
    LET w1 == assign(w, <<>>, "loading", Bool(TRUE))
        w2 == assign(w1, <<>>, "error", Null)
    IN get(w2)

\* a catch block that also drops the user shown
fetchUserRejected_dropUser(w, message) ==
    LET w1 == set(w, <<>>, "user", Null)
        w2 == set(w1, <<>>, "error", message)
    IN set(w2, <<>>, "loading", Bool(FALSE))

\* fetchUser's catch block, when the GET rejected with error
fetchUserRejected(w, message) ==
    LET w1 == assign(w, <<>>, "error", message)
    IN assign(w1, <<>>, "loading", Bool(FALSE))

\* fetchUser that forgets this.state.loading = false after the await
fetchUserResolved_keepLoading(w, data) == set(w, <<>>, "user", data)

\* fetchUser's catch block, entered when an error was raised inside try
catch(w) ==
    IF Raised(w) THEN fetchUserRejected([w EXCEPT !.err = "none"], MsgNotAFunction) ELSE w

\* fetchUser after the await, when the GET resolved with response: the
\* rest of the try block, and the catch block for what it raises
fetchUserResolved(w, data) ==
    LET w1 == assign(w, <<>>, "user", data)
        w2 == assign(w1, <<>>, "loading", Bool(FALSE))
    IN catch(w2)

clearUser(w) ==
    LET w1 == assign(w, <<>>, "user", Null)
    IN assign(w1, <<>>, "error", Null)

\* this[methodName](e)
Invoke(w, methodName) ==
    LET w1 == Note(w, "call", methodName)
    IN CASE methodName = "increment" -> increment(w1)
         [] methodName = "decrement" -> decrement(w1)
         [] methodName = "reset" -> reset(w1)
         [] methodName = "fetchUser" -> fetchUser(w1)
         [] methodName = "clearUser" -> clearUser(w1)
         [] OTHER -> w1

\* A click event on an element: every handler the element holds runs.
RECURSIVE Dispatch(_, _)
Dispatch(w, handlers) ==
    IF handlers = <<>> THEN w
    ELSE Dispatch(Invoke(w, Head(handlers)), Tail(handlers))

\* ----------------------------------------------------------------- state
VARIABLES
    _mounted,   \* this._mounted
    _element,   \* this._element: the live node, or NoNode for null
    _state,     \* this._state: the backing store setState keeps
    state,      \* this.state: the root reactive view
    hosts,      \* the children of every host element of the document
    nodes,      \* the DOM nodes that exist
    heap,       \* plain objects held by reference (response data)
    pending,    \* GET requests in flight
    log,        \* the calls made inside the last handler, in order
    err,        \* the error the last handler raised to its caller
    ret,        \* what the last call returned to its caller
    op,         \* the last external event
    lifecycle,  \* "mounted" from a successful mount() to the next unmount()
    pre,        \* what held when the last handler started
    component,  \* the class of the component instance
    callerState, \* the object client code holds and passes to setState
    tally       \* increment and decrement clicks since the last reset click

vars == <<_mounted, _element, _state, state, hosts, nodes, heap, pending, log, err, ret,
          op, lifecycle, pre, component, callerState,
          tally>>

\* The program's state as the handlers see it, at the start of a handler.
World ==
    [mounted |-> _mounted, element |-> _element, _state |-> _state, state |-> state,
     hosts |-> hosts, nodes |-> nodes, heap |-> heap, pending |-> pending,
     log |-> <<>>, err |-> "none", ret |-> "undefined", component |-> component]

Before ==
    [mounted |-> _mounted, element |-> _element, target |-> state.target,
     hosts |-> hosts, lifecycle |-> lifecycle, _state |-> _state,
     callerState |-> callerState]

Commit(w) ==
    /\ pre' = Before
    /\ _mounted' = w.mounted
    /\ _element' = w.element
    /\ _state' = w._state
    /\ state' = w.state
    /\ hosts' = w.hosts
    /\ nodes' = w.nodes
    /\ heap' = w.heap
    /\ pending' = w.pending
    /\ log' = w.log
    /\ err' = w.err
    /\ ret' = w.ret
    /\ UNCHANGED <<component, callerState>>

Op(name, path, property, value, target) ==
    [name |-> name, path |-> path, property |-> property, value |-> value,
     target |-> target]

\* App's constructor: super(), then setState of the four fields.
InitialState ==
    [EmptyObject EXCEPT !["count"] = Num(0), !["user"] = Null,
                        !["loading"] = Bool(FALSE), !["error"] = Null]

Init ==
    /\ _mounted = FALSE
    /\ _element = NoNode
    /\ _state = InitialState
    /\ state = createReactiveState(InitialState, ComponentListener)
    /\ \E prior \in {<<>>, <<1>>} :
          /\ hosts = [h \in HostIds |-> prior]
          /\ nodes = [n \in NodeIds |-> IF InSeq(n, prior) THEN NewNode(Placeholder)
                                        ELSE FreeNode]
    /\ heap = [o \in ObjIds |-> Free]
    /\ pending = 0
    /\ log = <<>>
    /\ err = "none"
    /\ ret = "undefined"
    /\ op = Op("new", <<>>, "", Undefined, "")
    /\ lifecycle = "unmounted"
    /\ component = "App"
    /\ callerState = InitialState
    /\ tally = [increment |-> 0, decrement |-> 0]
    /\ pre = Before

\* --------------------------------------------------------------- actions
\* mount(app, targetId)
Mount(targetId) ==
    /\ Commit(mount(World, targetId))
    /\ op' = Op("mount", <<>>, "", Undefined, targetId)
    /\ lifecycle' = IF err' = "none" THEN "mounted" ELSE lifecycle
    /\ UNCHANGED tally

\* unmount(app)
Unmount ==
    /\ Commit(unmount(World))
    /\ op' = Op("unmount", <<>>, "", Undefined, "")
    /\ lifecycle' = "unmounted"
    /\ UNCHANGED tally

\* app.setState(fields)
StatePresets ==
    {InitialState, [InitialState EXCEPT !["count"] = Num(1)]}

SetState(fields) ==
    /\ Commit(setState(World, fields))
    /\ op' = Op("setState", <<>>, "", fields["count"], "")
    /\ UNCHANGED <<lifecycle, tally>>

\* app.state.p1...pn.property = value, written by any code holding app
Paths == {<<>>, <<"user">>, <<"user", "company">>}
WriteValues(path, property) ==
    IF path = <<>>
    THEN CASE property = "count" -> {Num(1), NaN}
           [] property = "user" -> {Null} \cup {Obj(o) : o \in {i \in ObjIds : heap[i] # Free}}
           [] property = "loading" -> {Bool(FALSE)}
           [] property = "error" -> {Null}
           [] OTHER -> {}
    ELSE IF property = "name" THEN {NameLeanne, NameOther} ELSE {}

Write(path, property, value) ==
    /\ PathOk(heap, state, path)
    /\ Commit(set(World, path, property, value))
    /\ op' = Op("write", path, property, value, "")
    /\ UNCHANGED <<lifecycle, tally>>

\* A user's click on a marked element of a node in the document.
CountWithin(methodName) ==
    LET count == state.target["count"]
    IN count.k = "num" =>
          /\ methodName = "increment" => count.n < MaxCount
          /\ methodName = "decrement" => count.n > -MaxNeg

ClickOn(n, marker) ==
    /\ Attached(World, n)
    /\ InSeq(marker, nodes[n].content.clickables)
    /\ ~(marker = "fetchUser" /\ nodes[n].content.loading)
    /\ marker = "fetchUser" => pending < MaxPending
    /\ Commit(Dispatch(World, nodes[n].onclick[marker]))
    /\ op' = Op("click", <<>>, "", Num(n), marker)
    /\ UNCHANGED lifecycle

Click(n, marker) == CountWithin(marker) /\ ClickOn(n, marker) /\ UNCHANGED tally

\* The GET resolves: response.data is an object the JSON parser just made.
ResponseData(u, c) ==
    [o \in ObjIds |->
        IF o = u THEN [EmptyObject EXCEPT !["name"] = NameLeanne, !["company"] = Obj(c)]
        ELSE IF o = c THEN [EmptyObject EXCEPT !["name"] = NameCompany]
        ELSE heap[o]]

Resolve ==
    /\ pending > 0
    /\ \E u, c \in ObjIds :
          /\ heap[u] = Free /\ heap[c] = Free /\ c = u + 1
          /\ \A o \in ObjIds : o < u => heap[o] # Free
          /\ Commit(fetchUserResolved(
                 [World EXCEPT !.heap = ResponseData(u, c), !.pending = @ - 1], Obj(u)))
    /\ op' = Op("resolve", <<>>, "", Undefined, "")
    /\ UNCHANGED <<lifecycle, tally>>

\* The GET rejects: a non-2xx response, or the timeout.
Reject(message) ==
    /\ pending > 0
    /\ Commit(fetchUserRejected([World EXCEPT !.pending = @ - 1], message))
    /\ op' = Op("reject", <<>>, "", message, "")
    /\ UNCHANGED <<lifecycle, tally>>

Next ==
    \/ \E targetId \in HostIds \cup {MissingHost} : Mount(targetId)
    \/ Unmount
    \/ \E fields \in StatePresets : SetState(fields)
    \/ \E path \in Paths : \E property \in {"count", "user", "loading", "error", "name"} :
          \E value \in WriteValues(path, property) : Write(path, property, value)
    \/ \E n \in NodeIds : \E marker \in Markers : Click(n, marker)
    \/ Resolve
    \/ \E message \in {MsgHttpError, MsgTimeout} : Reject(message)

Spec == Init /\ [][Next]_vars

\* ------------------------------------------------ a client of the library
\* Client code with a component of its own, class Panel extends App, and
\* objects it made itself: a user object, two arrays, and the object it
\* passes to setState, which holds the first two.
ClientUser == 1
ClientItems == 2
ClientOther == 3
ClientHeap ==
    [o \in ObjIds |->
        IF o = ClientUser THEN [EmptyObject EXCEPT !["name"] = NameLeanne]
        ELSE IF o \in {ClientItems, ClientOther}
             THEN [EmptyObject EXCEPT !["length"] = Num(0)]
        ELSE Free]
ClientState ==
    [EmptyObject EXCEPT !["count"] = Num(1), !["user"] = Obj(ClientUser),
                        !["items"] = Arr(ClientItems)]

InitLib ==
    /\ _mounted = FALSE
    /\ _element = NoNode
    /\ _state = InitialState
    /\ state = createReactiveState(InitialState, ComponentListener)
    /\ hosts = [h \in HostIds |-> <<1>>]
    /\ nodes = [n \in NodeIds |-> IF n = 1 THEN NewNode(Placeholder) ELSE FreeNode]
    /\ heap = ClientHeap
    /\ pending = 0
    /\ log = <<>>
    /\ err = "none"
    /\ ret = "undefined"
    /\ op = Op("new", <<>>, "", Undefined, "")
    /\ lifecycle = "unmounted"
    /\ component = "Panel"
    /\ callerState = ClientState
    /\ tally = [increment |-> 0, decrement |-> 0]
    /\ pre = Before

\* app.state.p1...pn.property = value
ClientWriteValues(path, property) ==
    IF path = <<>>
    THEN CASE property = "count" -> {Num(0), Num(1)}
           [] property = "items" -> {Arr(ClientItems), Arr(ClientOther)}
           [] OTHER -> {}
    ELSE IF property = "name" THEN {NameOther} ELSE {}

\* app.state.items.push(x): a read of items, then on what the read
\* returned the writes push makes (of them, the one to length).  On the
\* array itself these are plain writes; on a reactive view they would go
\* through its set trap.
Push ==
    LET items == handler_get(heap, state, "items")
        length == JsAdd(heap[items.value.n]["length"], 1)
    IN /\ items.value.k = "arr"
       /\ heap[items.value.n]["length"].n < MaxPush
       /\ IF items.wrapped
          THEN Commit(set(World, <<"items">>, "length", length))
          ELSE Commit([World EXCEPT !.heap[items.value.n]["length"] = length])
       /\ op' = Op("push", <<"items">>, "length", length, "")
       /\ UNCHANGED <<lifecycle, tally>>

\* fields.property = value, on the plain object that was passed to setState
CallerWrite(property, value) ==
    /\ callerState[property] # value
    /\ callerState' = [callerState EXCEPT ![property] = value]
    /\ pre' = Before
    /\ op' = Op("callerWrite", <<>>, property, value, "")
    /\ log' = <<>>
    /\ err' = "none"
    /\ ret' = "undefined"
    /\ UNCHANGED <<_mounted, _element, _state, state, hosts, nodes, heap, pending,
                   lifecycle, component, tally>>

ClientMarkers == {"missing", "state", "increment", "reset"}

NextLib ==
    \/ \E targetId \in HostIds : Mount(targetId)
    \/ Unmount
    \/ SetState(callerState)
    \/ \E path \in {<<>>, <<"user">>} : \E property \in {"count", "items", "name"} :
          \E value \in ClientWriteValues(path, property) : Write(path, property, value)
    \/ \E n \in NodeIds : \E marker \in ClientMarkers : Click(n, marker)
    \/ Push
    \/ \E value \in {Num(1), Num(2)} : CallerWrite("count", value)

SpecLib == InitLib /\ [][NextLib]_vars

\* ------------------------------------------------- the counter on its own
\* The page with nothing but the three counter buttons in use: mount,
\* unmount, and clicks on the increment, decrement and reset elements,
\* counted in tally.
CounterClick(n, marker) ==
    /\ marker \in {"increment", "decrement", "reset"}
    /\ marker # "reset" => tally[marker] < MaxClicks
    /\ ClickOn(n, marker)
    /\ tally' = IF marker = "reset" THEN [increment |-> 0, decrement |-> 0]
                ELSE [tally EXCEPT ![marker] = @ + 1]

NextCounter ==
    \/ \E targetId \in HostIds : Mount(targetId)
    \/ Unmount
    \/ \E n \in NodeIds : \E marker \in Markers : CounterClick(n, marker)

SpecCounter == Init /\ [][NextCounter]_vars

\* ------------------------------------------- a page that calls fetchUser
\* A page whose own code calls app.fetchUser() (the button's disabled
\* attribute does not stop it, so several requests can be in flight) and
\* whose server answers with whatever JSON it has: data with a name that is
\* a string, or a number.  The page's component is the App, or a
\* JokoComponent whose class did not override render().
OddName == Num(42)

InitPage ==
    /\ component \in {"App", "JokoComponent"}
    /\ _mounted = FALSE
    /\ _element = NoNode
    /\ _state = (IF component = "App" THEN InitialState ELSE EmptyObject)
    /\ state = createReactiveState(_state, ComponentListener)
    /\ hosts = [h \in HostIds |-> <<1>>]
    /\ nodes = [n \in NodeIds |-> IF n = 1 THEN NewNode(Placeholder) ELSE FreeNode]
    /\ heap = [o \in ObjIds |-> Free]
    /\ pending = 0
    /\ log = <<>>
    /\ err = "none"
    /\ ret = "undefined"
    /\ op = Op("new", <<>>, "", Undefined, "")
    /\ lifecycle = "unmounted"
    /\ callerState = InitialState
    /\ tally = [increment |-> 0, decrement |-> 0]
    /\ pre = Before

\* app.fetchUser(), called by the page
Call(methodName) ==
    /\ component = "App"
    /\ pending < MaxFetch
    /\ Commit(Invoke(World, methodName))
    /\ op' = Op("call", <<>>, "", Undefined, methodName)
    /\ UNCHANGED <<lifecycle, tally>>

\* The GET resolves with data { name }.
ResolveWith(name) ==
    /\ pending > 0
    /\ \E u \in ObjIds :
          /\ heap[u] = Free
          /\ \A o \in ObjIds : o < u => heap[o] # Free
          /\ Commit(fetchUserResolved(
                 [World EXCEPT !.heap[u] = [EmptyObject EXCEPT !["name"] = name],
                               !.pending = @ - 1], Obj(u)))
    /\ op' = Op("resolve", <<>>, "name", name, "")
    /\ UNCHANGED <<lifecycle, tally>>

PageMarkers == {"increment", "reset", "fetchUser", "clearUser"}

NextPage ==
    \/ \E targetId \in HostIds : Mount(targetId)
    \/ Unmount
    \/ Write(<<>>, "count", Num(1))
    \/ Call("fetchUser")
    \/ \E n \in NodeIds : \E marker \in PageMarkers : Click(n, marker)
    \/ \E name \in {NameLeanne, OddName} : ResolveWith(name)
    \/ Reject(MsgHttpError)

SpecPage == InitPage /\ [][NextPage]_vars

\* ---------------------------------- a component that writes in onMount
\* The page of the bootstrap with a Starter in the App's place.
InitStarter ==
    /\ component = "Starter"
    /\ _mounted = FALSE
    /\ _element = NoNode
    /\ _state = InitialState
    /\ state = createReactiveState(InitialState, ComponentListener)
    /\ \E prior \in {<<>>, <<1>>} :
          /\ hosts = [h \in HostIds |-> prior]
          /\ nodes = [n \in NodeIds |-> IF InSeq(n, prior) THEN NewNode(Placeholder)
                                        ELSE FreeNode]
    /\ heap = [o \in ObjIds |-> Free]
    /\ pending = 0
    /\ log = <<>>
    /\ err = "none"
    /\ ret = "undefined"
    /\ op = Op("new", <<>>, "", Undefined, "")
    /\ lifecycle = "unmounted"
    /\ callerState = InitialState
    /\ tally = [increment |-> 0, decrement |-> 0]
    /\ pre = Before

NextStarter ==
    \/ \E targetId \in HostIds \cup {MissingHost} : Mount(targetId)
    \/ Unmount
    \/ \E fields \in StatePresets : SetState(fields)
    \/ \E n \in NodeIds : \E marker \in {"increment", "decrement", "reset"} : Click(n, marker)

SpecStarter == InitStarter /\ [][NextStarter]_vars

\* ------------------------------------------------------------ log helpers
Count(l, ev) == Cardinality({i \in 1..Len(l) : l[i].ev = ev})
Evs(l) == [i \in 1..Len(l) |-> l[i].ev]
IsRootWrite(o) == o.name = "write" /\ o.path = <<>>
IsNestedWrite(o) == o.name = "write" /\ o.path # <<>>
RootView(target) == [target |-> target, onChange |-> ComponentListener]

\* ------------------------------------------------------------------- C1
\* C1 as stated: whenever the same write view.f = v is performed twice in
\* succession on the root view, the listener is invoked exactly once over
\* the two writes.
C1_TwiceNotifiesOnce ==
    [][(IsRootWrite(op) /\ op' = op) => Count(log, "notify") + Count(log', "notify") = 1]_vars

\* C1 amended: a write view.f = v invokes the listener once when v !== the
\* stored value and not at all otherwise, and leaves v stored; so for every
\* v other than NaN a write of the v already stored (the second of two
\* successive writes of v) stores nothing, notifies nobody and renders
\* nothing.
C1_SecondWriteNoOp ==
    IsRootWrite(op) =>
        /\ log[1].ev = "set" /\ log[1].name = op.property /\ log[1].new = op.value
        /\ log[1].old = pre.target[op.property]
        /\ Count(log, "notify") =
               (IF StrictNotEqual(pre.target[op.property], op.value) THEN 1 ELSE 0)
        /\ state.target[op.property] = op.value
        /\ (pre.target[op.property] = op.value /\ op.value # NaN) =>
               /\ Len(log) = 1
               /\ state.target = pre.target
               /\ hosts = pre.hosts /\ _element = pre.element

\* A write of the value already stored has just run on a mounted component:
\* only the set trap ran.
C1_Witness ==
    /\ IsRootWrite(op) /\ op.value = Num(1)
    /\ pre.target[op.property] = op.value
    /\ Len(log) = 1
    /\ _mounted

\* ------------------------------------------------------------------- C2
\* C2: after a write through a nested view, view.a.b = x, reading view.a.b
\* through the root view returns x (the nested view shares the object the
\* parent holds).
C2_NestedWriteStored ==
    IsNestedWrite(op) => ViewAt(heap, state, op.path).target[op.property] = op.value

\* ------------------------------------------------------------------- C3
\* C3: a nested write view.a.b = x (depth one or two) with x !== the stored
\* a.b invokes the listener of the root view exactly once, with field name
\* b; the listener being the component's, a mounted component then runs one
\* update.
C3_NestedWriteNotifiesRoot ==
    (/\ IsNestedWrite(op)
     /\ StrictNotEqual(ViewAt(heap, RootView(pre.target), op.path).target[op.property],
                       op.value))
    => /\ Count(log, "notify") = 1
       /\ log[2].ev = "notify" /\ log[2].name = op.property /\ log[2].new = op.value
       /\ log[2].old = ViewAt(heap, RootView(pre.target), op.path).target[op.property]
       /\ Count(log, "render") = (IF pre.lifecycle = "mounted" THEN 1 ELSE 0)

\* A write two levels down (state.user.company.name) has notified once and
\* the mounted component has updated.
C3_Witness ==
    /\ IsNestedWrite(op) /\ Len(op.path) = 2
    /\ Count(log, "notify") = 1 /\ log[2].name = "name"
    /\ Count(log, "onUpdate") = 1

\* ------------------------------------------------------------------- C4
\* C4: at the end of every update (where onUpdate is called), and after the
\* handler that made the write, the host of the live node has exactly one
\* child, that child is the component's live node, and it shows the parse
\* of what render() returns for the state at that moment.
C4_RenderReplace ==
    /\ \A i \in 1..Len(log) :
          log[i].ev = "onUpdate" =>
              /\ log[i].att /\ log[i].kids = 1
              /\ log[i].shown = FirstChild(render(heap, RootView(log[i].st)))
    /\ Count(log, "onUpdate") > 0 =>
          /\ \E h \in HostIds : hosts[h] = <<_element>>
          /\ nodes[_element].content = FirstChild(render(heap, state))

\* An update has replaced a node that showed something else.
C4_Witness ==
    /\ op.name = "click" /\ op.target = "increment"
    /\ Count(log, "onUpdate") = 1
    /\ nodes[_element].content.countText = Txt("numeral", 2)

\* ------------------------------------------------------------------- C5
\* C5: a click on a marked element invokes the named method exactly once;
\* no onclick slot ever holds more than one handler; while mounted the
\* host's only child is the live node, with every marked element bound; a
\* node under the live node's host that is not the live node has no handler.
C5_EventRebinding ==
    /\ op.name = "click" =>
          /\ Count(log, "call") = 1
          /\ log[1].ev = "call" /\ log[1].name = op.target
    /\ \A n \in NodeIds : \A m \in DOMAIN nodes[n].onclick : Len(nodes[n].onclick[m]) <= 1
    /\ lifecycle = "mounted" =>
          /\ \E h \in HostIds : hosts[h] = <<_element>>
          /\ \A i \in 1..Len(nodes[_element].content.clickables) :
                LET m == nodes[_element].content.clickables[i]
                IN nodes[_element].onclick[m] = <<m>>
    /\ \A h \in HostIds : \A i \in 1..Len(hosts[h]) :
          (InSeq(_element, hosts[h]) /\ hosts[h][i] # _element) =>
              \A m \in DOMAIN nodes[hosts[h][i]].onclick : nodes[hosts[h][i]].onclick[m] = <<>>

\* A click on the Clear button, which only exists after mount, a fetch and
\* the updates that followed.
C5_Witness ==
    /\ op.name = "click" /\ op.target = "clearUser"
    /\ Count(log, "call") = 1
    /\ Count(log, "onUpdate") >= 1

\* ------------------------------------------------------------------- C6
\* C6: mount with an identifier that names no host raises target-not-found,
\* calls neither render() nor a hook, performs no DOM operation, and leaves
\* hosts and component as they were (an unmounted component stays unmounted
\* with a null live node).
C6_MountError ==
    (op.name = "mount" /\ op.target \notin HostIds) =>
        /\ err = "TargetNotFound"
        /\ log = <<>>
        /\ hosts = pre.hosts
        /\ _mounted = pre.mounted /\ _element = pre.element
        /\ state.target = pre.target
        /\ pre.lifecycle = "unmounted" => (~_mounted /\ _element = NoNode)

C6_Witness ==
    /\ op.name = "mount" /\ op.target = MissingHost
    /\ err = "TargetNotFound"
    /\ ~_mounted /\ _element = NoNode

\* ------------------------------------------------------------------- C7
\* C7: a handler that runs before mount or after unmount (a field write, a
\* late completion of the GET) stores what it writes but renders nothing,
\* touches no DOM node, binds nothing and calls no onUpdate; a render
\* outside mount() happens only while mounted.
DomEvents == {"render", "clear", "insert", "replace", "remove", "bind", "onUpdate"}
C7_UpdateOnlyWhileMounted ==
    /\ (pre.lifecycle = "unmounted" /\ op.name \in {"write", "resolve", "reject", "setState"}) =>
          /\ \A i \in 1..Len(log) : log[i].ev \notin DomEvents
          /\ hosts = pre.hosts /\ _element = NoNode /\ ~_mounted
          /\ IsRootWrite(op) => state.target[op.property] = op.value
          /\ op.name = "resolve" =>
                 state.target["user"].k = "obj" /\ state.target["loading"] = Bool(FALSE)
          /\ op.name = "reject" =>
                 state.target["error"] = op.value /\ state.target["loading"] = Bool(FALSE)
    /\ (op.name # "mount" /\ Count(log, "render") > 0) => pre.lifecycle = "mounted"

\* The GET completed after unmount and its two writes changed the state.
C7_Witness ==
    /\ op.name = "resolve" /\ pre.lifecycle = "unmounted"
    /\ Count(log, "notify") = 2
    /\ state.target["user"].k = "obj"

\* ------------------------------------------------------------------- C8
\* C8: on a mounted component every write whose value differs (!==) from
\* the stored one is followed at once, before the handler's next statement,
\* by one whole cycle listener, render, replace, bind, onUpdate; a write of
\* an identical value is followed by none; so a handler makes as many
\* renders and onUpdate calls as it makes changed writes.
Changed(e) == e.ev = "set" /\ StrictNotEqual(e.old, e.new)
Cycle == <<"notify", "render", "replace", "bind", "onUpdate">>
C8_NoBatching ==
    (pre.lifecycle = "mounted" /\ op.name \in {"write", "click", "resolve", "reject"}) =>
        /\ \A i \in 1..Len(log) :
              log[i].ev = "set" =>
                  IF Changed(log[i])
                  THEN /\ i + 5 <= Len(log)
                       /\ SubSeq(Evs(log), i + 1, i + 5) = Cycle
                       /\ (i + 5 < Len(log) => log[i + 6].ev = "set")
                  ELSE i < Len(log) => log[i + 1].ev = "set"
        /\ Count(log, "render") = Cardinality({i \in 1..Len(log) : Changed(log[i])})
        /\ Count(log, "onUpdate") = Count(log, "render")

\* fetchUser's two writes both changed the state: two renders in one click.
C8_Witness ==
    /\ op.name = "click" /\ op.target = "fetchUser"
    /\ Count(log, "render") = 2 /\ Count(log, "onUpdate") = 2

\* ------------------------------------------------------------------- C9
\* C9: unmount does nothing unless the component is mounted with a live
\* node; otherwise it calls onUnmount() while the live node is still in the
\* host, then removes the node; either way it ends unmounted with a null
\* live node, so that one more unmount does nothing.
C9_Unmount ==
    op.name = "unmount" =>
        /\ IF pre.mounted /\ pre.element # NoNode
           THEN /\ Evs(log) = <<"onUnmount", "remove">>
                /\ log[1].att /\ log[1].kids = 1
                /\ ~log[2].att
                /\ \A h \in HostIds : ~InSeq(pre.element, hosts[h])
           ELSE /\ log = <<>>
                /\ hosts = pre.hosts /\ state.target = pre.target
                /\ _mounted = pre.mounted /\ _element = pre.element
        /\ ~_mounted /\ _element = NoNode

\* A mounted component has been unmounted.
C9_Witness ==
    /\ op.name = "unmount" /\ pre.mounted
    /\ Evs(log) = <<"onUnmount", "remove">>
    /\ ~_mounted

\* ------------------------------------------------------------------ C10
\* C10 as stated: every hook call comes after its DOM operation: onMount
\* after the insert, onUpdate after the replace, onUnmount after the remove.
HookAfter(hook, domOp) ==
    \A i \in 1..Len(log) :
        log[i].ev = hook => \E j \in 1..(i - 1) : log[j].ev = domOp
C10_HooksAfterDomOp ==
    /\ HookAfter("onMount", "insert")
    /\ HookAfter("onUpdate", "replace")
    /\ HookAfter("onUnmount", "remove")

\* C10 amended: onMount is called once per successful mount, after the
\* insert; onUpdate once per update cycle, after that cycle's replace;
\* onUnmount once per unmount of a mounted component, before the node is
\* removed, while it is still in the host.
C10_HookOrder ==
    /\ Count(log, "onMount") =
          (IF op.name = "mount" /\ op.target \in HostIds THEN 1 ELSE 0)
    /\ \A i \in 1..Len(log) :
          log[i].ev = "onMount" =>
              log[i].att /\ i = Len(log) /\ \E j \in 1..(i - 1) : log[j].ev = "insert"
    /\ Count(log, "onUpdate") = Count(log, "replace")
    /\ \A i \in 1..Len(log) :
          log[i].ev = "onUpdate" => log[i].att /\ i > 2 /\ log[i - 2].ev = "replace"
    /\ Count(log, "onUnmount") =
          (IF op.name = "unmount" /\ pre.mounted /\ pre.element # NoNode THEN 1 ELSE 0)
    /\ \A i \in 1..Len(log) :
          log[i].ev = "onUnmount" =>
              log[i].att /\ i < Len(log) /\ log[i + 1].ev = "remove"
                         /\ \A j \in 1..(i - 1) : log[j].ev # "remove"

\* All three hooks have been seen in their order: this is the unmount of a
\* component whose live node came from an update.
C10_Witness ==
    /\ op.name = "unmount"
    /\ Evs(log) = <<"onUnmount", "remove">>
    /\ log[1].shown.countText = Txt("numeral", 1)

\* ------------------------------------------------------------------ C11
\* C11: a successful mount(component, hostId) of a component whose render()
\* yields a root calls render, clears the host, inserts, binds and calls
\* onMount() once, in this order; afterwards nothing the host held before
\* is left in it, its only child is the node parsed from render(), that
\* node is the live node with every marked element bound, mounted is true
\* and the call has returned the component.
C11_Mount ==
    (op.name = "mount" /\ op.target \in HostIds) =>
        /\ Evs(log) = <<"render", "clear", "insert", "bind", "onMount">>
        /\ err = "none" /\ ret = "component"
        /\ _mounted /\ _element # NoNode
        /\ hosts[op.target] = <<_element>>
        /\ ~InSeq(_element, pre.hosts[op.target])
        /\ nodes[_element].content = FirstChild(render(heap, state))
        /\ \A i \in 1..Len(nodes[_element].content.clickables) :
              LET m == nodes[_element].content.clickables[i]
              IN nodes[_element].onclick[m] = <<m>>
        /\ ~log[2].att /\ log[4].att /\ log[5].att
        /\ log[5].kids = 1 /\ log[5].shown = nodes[_element].content
        /\ state.target = pre.target

\* A mount into a host that held other content has returned the component.
C11_Witness ==
    /\ op.name = "mount" /\ op.target = "app"
    /\ pre.hosts["app"] # <<>> /\ ~pre.mounted
    /\ hosts["app"] = <<_element>>
    /\ ret = "component"

\* ------------------------------------------------------------------ C12
\* C12 as stated, its last part: the fields given to setState become
\* visible only at a changed field write, so every handler that renders
\* has made a changed write.
C12_VisibleOnlyAtWrite ==
    Count(log, "render") > 0 => \E i \in 1..Len(log) : Changed(log[i])

\* C12 amended: setState(fields) makes the backing store and the state read
\* through the view a copy of fields and calls nothing: no render, no DOM
\* operation, no hook, mounted or not; host and live node stay as they
\* were.  The fields become visible at the next render, which is the first
\* call of a successful mount or follows at once a changed field write on
\* a mounted component.
C12_SetStateNoRender ==
    /\ op.name = "setState" =>
          /\ log = <<>> /\ err = "none"
          /\ hosts = pre.hosts /\ _element = pre.element /\ _mounted = pre.mounted
          /\ _state["count"] = op.value /\ state.target = _state
          /\ state.onChange = ComponentListener
    /\ \A i \in 1..Len(log) :
          log[i].ev = "render" =>
              \/ op.name = "mount" /\ i = 1
              \/ i > 1 /\ log[i - 1].ev = "notify" /\ pre.mounted

\* setState on a mounted component has left the host showing the old count.
C12_Witness ==
    /\ op.name = "setState" /\ pre.mounted /\ _mounted
    /\ hosts["app"] = <<_element>>
    /\ nodes[_element].content.countText # Interpolate(state.target["count"])

\* ------------------------------------------------------------------ C13
\* C13: for the App constructed with count = 0, whatever sequence of
\* clicks on the increment, decrement and reset elements was made (and
\* however often it was mounted and unmounted), state.count is the number
\* of increments minus the number of decrements since the last reset, and
\* while mounted the rendered count text is that number's numeral.
C13_Counter ==
    /\ state.target["count"] = Num(tally.increment - tally.decrement)
    /\ lifecycle = "mounted" =>
          /\ hosts["app"] = <<_element>>
          /\ nodes[_element].content.countText =
                 Txt("numeral", tally.increment - tally.decrement)

\* Three increments rendered "3" and the reset click that followed rendered
\* "0".
C13_Witness ==
    /\ op.name = "click" /\ op.target = "reset"
    /\ pre.target["count"] = Num(3)
    /\ Count(log, "onUpdate") = 1
    /\ nodes[_element].content.countText = Txt("numeral", 0)

C15_FetchFailure ==
    (op.name = "reject" /\ pre.lifecycle = "mounted") =>
        /\ state.target["user"] = pre.target["user"]
        /\ state.target["error"] = op.value
        /\ state.target["loading"] = Bool(FALSE)
        /\ err = "none"
        /\ hosts["app"] = <<_element>>
        /\ nodes[_element].content.error = Interpolate(op.value)
        /\ ~nodes[_element].content.loading
        /\ nodes[_element].content.userCard = (pre.target["user"].k = "obj")

\* The GET of the first fetch timed out: no user, the message shown.
C15_Witness ==
    /\ op.name = "reject" /\ op.value = MsgTimeout /\ pre.lifecycle = "mounted"
    /\ pre.target["loading"] = Bool(TRUE)
    /\ state.target["user"] = Null
    /\ Count(log, "onUpdate") = 2
    /\ nodes[_element].content.error = Txt("chars", 5)

\* ------------------------------------------------------------------ C18
\* C18: a write that changes a field calls the listener at once, inside
\* the write and before anything else runs, with the field name, the
\* previous value, the new value and the container the write went to, the
\* new value already stored in it (for a nested write the container is the
\* nested view's own); a mounted component's render inside that call reads
\* the new value of a top-level field.
C18_NotifyAfterStore ==
    /\ \A i \in 1..Len(log) :
          Changed(log[i]) =>
              /\ i < Len(log) /\ log[i + 1].ev = "notify"
              /\ log[i + 1].name = log[i].name
              /\ log[i + 1].old = log[i].old /\ log[i + 1].new = log[i].new
              /\ log[i + 1].st = [log[i].st EXCEPT ![log[i].name] = log[i].new]
    /\ \A i \in 1..Len(log) :
          log[i].ev = "notify" => i > 1 /\ Changed(log[i - 1])
    /\ \A i \in 1..Len(log) :
          (log[i].ev = "notify" /\ op.name # "write" /\ pre.lifecycle = "mounted") =>
              /\ log[i + 4].ev = "onUpdate"
              /\ log[i + 4].st[log[i].name] = log[i].new
    /\ (IsRootWrite(op) /\ Changed(log[1]) /\ pre.lifecycle = "mounted") =>
          log[6].ev = "onUpdate" /\ log[6].st[op.property] = op.value
    /\ IsRootWrite(op) => state.target[op.property] = op.value

\* A write through the nested view of user has notified with the container
\* holding the new name.
C18_Witness ==
    /\ IsNestedWrite(op) /\ op.path = <<"user">> /\ op.value = NameOther
    /\ log[2].ev = "notify" /\ log[2].old = NameLeanne
    /\ log[2].st["name"] = NameOther
    /\ log[2].st["company"].k = "obj"

\* ------------------------------------------------------------------ C16
\* C16: a read of a field that holds a sequence returns the stored
\* sequence itself, not a view; so items.push(x) changes the stored
\* sequence and calls nothing: no listener, no render, the host keeps what
\* it showed.  A write of the field notifies exactly when the value
\* written is another sequence than the stored one.
C16_SequenceNotWrapped ==
    /\ state.target["items"].k = "arr" =>
          handler_get(heap, state, "items") =
              [value |-> state.target["items"], wrapped |-> FALSE, view |-> NoProxy]
    /\ op.name = "push" =>
          /\ log = <<>> /\ err = "none"
          /\ state.target = pre.target
          /\ hosts = pre.hosts /\ _element = pre.element
          /\ heap[state.target["items"].n]["length"] = op.value
    /\ (IsRootWrite(op) /\ op.property = "items") =>
          /\ Count(log, "notify") = (IF pre.target["items"] # op.value THEN 1 ELSE 0)
          /\ state.target["items"] = op.value

\* A push on a mounted component: the sequence has one element and the
\* host still shows the length 0.
C16_Witness ==
    /\ op.name = "push" /\ pre.lifecycle = "mounted" /\ _element # NoNode
    /\ heap[state.target["items"].n]["length"] = Num(1)
    /\ nodes[_element].content.items = Txt("numeral", 0)

\* ------------------------------------------------------------------ C17
\* C17: whenever an operation has rendered and render() gave no root, the
\* operation has raised an error to its caller, in mount and in an update
\* alike, and the component is left consistent: mounted exactly when it
\* has a live node, which then is the only child of the host.
C17_NoRootRaises ==
    (Count(log, "render") > 0 /\ FirstChild(render_Panel(heap, state)) = NoElement) =>
        /\ err # "none"
        /\ _mounted <=> _element # NoNode
        /\ _mounted => \E h \in HostIds : hosts[h] = <<_element>>

\* ------------------------------------------------------------------ C19
\* C19: binding raises nothing; after it every marked element that names a
\* method of the component holds one handler and every marked element
\* that names anything else holds none, wherever in the markup it stands;
\* a click on an element of the second kind calls nothing and changes
\* neither state nor host.
C19_PermissiveBinding ==
    /\ Count(log, "bind") > 0 => err = "none"
    /\ _element # NoNode =>
          \A i \in 1..Len(nodes[_element].content.clickables) :
              LET m == nodes[_element].content.clickables[i]
              IN nodes[_element].onclick[m] = (IF IsMethod(m) THEN <<m>> ELSE <<>>)
    /\ (op.name = "click" /\ ~IsMethod(op.target)) =>
          /\ log = <<>> /\ err = "none"
          /\ state.target = pre.target
          /\ hosts = pre.hosts /\ _element = pre.element

\* A click on the element marked "missing", which stands before the bound
\* elements marked increment and reset.
C19_Witness ==
    /\ op.name = "click" /\ op.target = "missing"
    /\ log = <<>>
    /\ nodes[_element].content.clickables = <<"missing", "state", "increment", "reset">>
    /\ nodes[_element].onclick["missing"] = <<>>
    /\ nodes[_element].onclick["increment"] = <<"increment">>
    /\ nodes[_element].onclick["reset"] = <<"reset">>

\* ------------------------------------------------------------------ C20
\* C20: the object client code passed to setState changes only when client
\* code writes to it, and the backing store passed to createReactiveState
\* only in setState: no write through the view, top-level or nested, and
\* no click changes either, nor the user object both refer to.  A later
\* write to the passed object changes nothing that is read through the
\* view.
C20_PrivateCopy ==
    /\ op.name # "callerWrite" => callerState = pre.callerState
    /\ op.name # "setState" => _state = pre._state
    /\ heap[ClientUser] = ClientHeap[ClientUser]
    /\ op.name = "setState" => (_state = callerState /\ state.target = callerState)
    /\ op.name = "callerWrite" =>
          /\ callerState[op.property] = op.value
          /\ log = <<>>
          /\ state.target = pre.target /\ hosts = pre.hosts /\ _element = pre.element
          /\ handler_get(heap, state, op.property).value = pre.target[op.property]

\* A changed write of count through the view made from the passed object:
\* the view has the new count, the passed object and the backing store the
\* old one.
C20_Witness ==
    /\ IsRootWrite(op) /\ op.property = "count" /\ Count(log, "notify") = 1
    /\ _state = callerState /\ _state["user"] = Obj(ClientUser)
    /\ state.target["count"] # callerState["count"]

\* ------------------------------------------------------------------ C21
\* C21: when render() raises during an update that a changed field write
\* triggered, nothing of the update runs after it: no replace, no bind, no
\* onUpdate; host, live node and bindings are at that moment what they were
\* before the write, and the written value is stored.  The error reaches
\* the code that made the write: a write by page code and a click end with
\* that error, and inside fetchUser after its await the catch block runs
\* next.  A component with the abstract render() cannot be mounted (mount
\* raises before it touches the host), so its writes never reach render().
C21_RenderErrorPropagates ==
    /\ \A i \in 1..Len(log) :
          (log[i].ev = "throw" /\ op.name # "mount") =>
              /\ i > 3 /\ log[i - 1].ev = "render" /\ log[i - 2].ev = "notify"
              /\ Changed(log[i - 3])
              /\ log[i].dom = log[i - 3].dom
              /\ log[i].st[log[i - 3].name] = log[i - 3].new
              /\ i < Len(log) => (log[i + 1].ev = "set" /\ op.name = "resolve")
              /\ i = Len(log) =>
                    /\ err = log[i].name
                    /\ Dom(World) = log[i].dom
                    /\ state.target[log[i - 3].name] = log[i - 3].new
    /\ Count(log, "onUpdate") = Count(log, "replace")
    /\ op.name # "mount" =>
          Count(log, "render") = Count(log, "replace") + Count(log, "throw")
    /\ (IsRootWrite(op) /\ pre.mounted /\ pre.element # NoNode
           /\ StrictNotEqual(pre.target[op.property], op.value)
           /\ render_raises(heap, state) # "none") =>
          /\ err = render_raises(heap, state)
          /\ Evs(log) = <<"set", "notify", "render", "throw">>
          /\ hosts = pre.hosts /\ _element = pre.element
          /\ state.target[op.property] = op.value
    /\ component = "JokoComponent" =>
          /\ ~_mounted /\ _element = NoNode /\ hosts = pre.hosts
          /\ Count(log, "render") = (IF op.name = "mount" THEN 1 ELSE 0)
          /\ op.name = "mount" => (err = "Error" /\ Evs(log) = <<"render", "throw">>)

\* Page code wrote count = 1 on the mounted App whose user has the name 42:
\* the write ended with the TypeError, count is stored and the host still
\* shows the count 0, with its buttons bound.
C21_Witness ==
    /\ IsRootWrite(op) /\ op.property = "count" /\ pre.mounted
    /\ err = "TypeError"
    /\ Evs(log) = <<"set", "notify", "render", "throw">>
    /\ state.target["count"] = Num(1)
    /\ hosts["app"] = <<_element>>
    /\ nodes[_element].content.countText = Txt("numeral", 0)
    /\ nodes[_element].onclick["increment"] = <<"increment">>

\* ------------------------------------------------------------------ C22
\* C22: in every state the App (whose render() always yields one root)
\* reaches by construction, setState, mount, field writes, clicks,
\* completions of requests and unmount, the mounted flag is true exactly
\* when the live-node reference is not null, that is from a successful
\* mount to the next unmount, and while mounted the live node is the only
\* child of the host the component was mounted into.
C22_Lifecycle ==
    /\ _mounted <=> _element # NoNode
    /\ _mounted <=> lifecycle = "mounted"
    /\ _mounted =>
          /\ hosts["app"] = <<_element>>
          /\ nodes[_element].content.tag = "div.joko-app"
    /\ ~_mounted => \A h \in HostIds : \A i \in 1..Len(hosts[h]) :
                        nodes[hosts[h][i]].content.tag # "div.joko-app"

\* The mounted App was mounted once more into its host, after an update:
\* the host holds the new live node alone.
C22_Witness ==
    /\ op.name = "mount" /\ op.target = "app" /\ pre.mounted
    /\ pre.target["count"] = Num(2)
    /\ _mounted /\ _element # NoNode /\ _element # pre.element
    /\ hosts["app"] = <<_element>>

\* ------------------------------------------------------------------ C23
\* C23: whatever fetchUser calls, clearUser and counter clicks, unmounts
\* and completions of requests (with success or with failure) have
\* happened, whenever no request is in flight state.loading is false, and
\* while the App is mounted the view shows the fetch button not loading.
C23_LoadingSettles ==
    (component = "App" /\ pending = 0) =>
        /\ state.target["loading"] = Bool(FALSE)
        /\ (_mounted /\ _element # NoNode) => ~nodes[_element].content.loading

\* The same, as long as no response has carried a name that is no string:
\* then no render() raises.
C23_SettlesWithStringNames ==
    (\A o \in ObjIds : heap[o]["name"] # OddName) =>
        /\ C23_LoadingSettles
        /\ err = "none" \/ component = "JokoComponent"

\* ------------------------------------------------------------------ C24
\* C24: a mount of the Starter, whose onMount() writes count = 1, onto an
\* existing host: when the write changes count, one whole update (notify,
\* render, replace, bind, onUpdate) runs inside onMount(), after the
\* insert and the binding and before mount returns; onMount() was called
\* with the host showing the old count, and when mount returns the host's
\* only child is the node the update put in, it is the live node, bound,
\* and shows count = 1.  When count was 1 already the write does nothing
\* and the node mount inserted stays.
C24_WriteInOnMount ==
    (component = "Starter" /\ op.name = "mount" /\ op.target \in HostIds) =>
        /\ err = "none" /\ ret = "component" /\ _mounted
        /\ state.target["count"] = Num(1)
        /\ hosts[op.target] = <<_element>>
        /\ nodes[_element].content = FirstChild(render(heap, state))
        /\ nodes[_element].content.countText = Txt("numeral", 1)
        /\ nodes[_element].onclick["increment"] = <<"increment">>
        /\ log[5].ev = "onMount" /\ log[5].att /\ log[5].dom.node.onclick["reset"] = <<"reset">>
        /\ log[5].shown.countText = Interpolate(pre.target["count"])
        /\ IF StrictNotEqual(pre.target["count"], Num(1))
           THEN /\ Evs(log) = <<"render", "clear", "insert", "bind", "onMount", "set",
                                "notify", "render", "replace", "bind", "onUpdate">>
                /\ log[11].att /\ log[11].kids = 1
                /\ log[11].shown.countText = Txt("numeral", 1)
                /\ _element # log[5].dom.element
                /\ ~InSeq(log[5].dom.element, hosts[op.target])
           ELSE /\ Evs(log) = <<"render", "clear", "insert", "bind", "onMount", "set">>
                /\ _element = log[5].dom.element

\* The Starter constructed with count = 0 has been mounted: the update ran
\* inside the hook and the host shows 1.
C24_Witness ==
    /\ component = "Starter" /\ op.name = "mount" /\ ~pre.mounted
    /\ pre.target["count"] = Num(0)
    /\ Count(log, "onUpdate") = 1
    /\ hosts["app"] = <<_element>>
    /\ nodes[_element].content.countText = Txt("numeral", 1)

====
